---- MODULE Spec2Model ----
(***************************************************************************)
(* Model of crates/wit-component/src/builder.rs: ComponentBuilder, the     *)
(* helper that encodes items of a component while handing out the index    *)
(* each item gets in its index space, and that batches consecutive items   *)
(* of one section kind into one section of the output.                     *)
(*                                                                         *)
(* A section is a record [kind, entries]; an entry is the call that wrote  *)
(* it, [op, kind, name].  The builder is the record `self` with the fields *)
(* of the struct.  Every method is an operator from the builder (and the   *)
(* arguments) to a result [self, ret, panic]; an action applies it.        *)
(***************************************************************************)
EXTENDS Integers, Sequences, FiniteSets, TLC

VARIABLES self, status, ret, output, trace, rets, overflow_checks

vars == <<self, status, ret, output, trace, rets, overflow_checks>>

\* ---------------------------------------------------------------- bounds
\* Longest sequence of registration calls explored.
MaxCalls == 3

\* ------------------------------------------------------------- constants
\* A u32 is kept as two 16-bit limbs, [hi, lo], standing for hi * 2^16 + lo
\* (the model checker's integers are narrower than 2^32).
Limb == 65536

\* Names passed to import.
Names == {"a", "b"}

\* wasm_encoder::ExportKind, as matched in alias_core_item.
ExportKind == {"Func", "Table", "Memory", "Global", "Tag"}

\* wasm_encoder::ComponentExportKind, as matched in export.
ComponentExportKind == {"Type", "Func", "Module", "Instance", "Component", "Value"}

\* wasm_encoder::ComponentTypeRef, as matched in import.
ComponentTypeRef == {"Instance", "Func", "Module", "Value", "Type", "Component"}

\* The fields of ComponentBuilder that count an index space.
Counters == {"core_modules", "core_funcs", "core_memories", "core_tables",
             "core_instances", "funcs", "instances", "types"}

\* The section types handed to section_accessors!.
BatchKinds == {"ComponentInstanceSection", "InstanceSection",
               "CanonicalFunctionSection", "ComponentAliasSection",
               "ComponentExportSection", "ComponentImportSection",
               "ComponentTypeSection"}

\* The section a sub-module is written as (ModuleSection, or RawSection
\* with id ComponentSectionId::CoreModule).
CoreModule == "CoreModule"

\* What Component::finish puts in front of the sections.
Header == [kind |-> "Header", entries |-> <<>>]

\* The u32 of a small natural number.
U32(n) == [hi |-> n \div Limb, lo |-> n % Limb]

\* u32::MAX
U32Max == [hi |-> Limb - 1, lo |-> Limb - 1]

\* Value of `ret` while no call has returned.
NoRet == [hi |-> -1, lo |-> -1]

\* --------------------------------------------------------------- helpers
\* LastSection::None, the #[default] of the enum.
LastSectionNone == [kind |-> "None", entries |-> <<>>]

\* #[derive(Default)] of ComponentBuilder.
Default == [component      |-> <<>>,
            last_section   |-> LastSectionNone,
            core_modules   |-> U32(0),
            core_funcs     |-> U32(0),
            core_memories  |-> U32(0),
            core_tables    |-> U32(0),
            core_instances |-> U32(0),
            funcs          |-> U32(0),
            instances      |-> U32(0),
            types          |-> U32(0)]

\* The argument of a call, which is also the entry it writes.
Call(op, kind, name) == [op |-> op, kind |-> kind, name |-> name]

\* A call that returned / a call that panicked.
Ok(s, r) == [self |-> s, ret |-> r, panic |-> FALSE]

Panic(s) == [self |-> s, ret |-> NoRet, panic |-> TRUE]

\* *idx += 1 on a u32 when it does not panic: wraps at 2^32 (overflow
\* checks off, the release profile).
add1(v) ==
    IF v.lo + 1 < Limb
    THEN [hi |-> v.hi, lo |-> v.lo + 1]
    ELSE [hi |-> (v.hi + 1) % Limb, lo |-> 0]

\* inc, returning the value after the increment.
inc_ret_after(s, f) == Ok([s EXCEPT ![f] = add1(@)], add1(s[f]))

\* fn inc(idx: &mut u32) -> u32.  With overflow checks on (the debug
\* profile) `*idx += 1` panics at u32::MAX and leaves the counter alone.
inc(s, f) ==
    IF overflow_checks /\ s[f] = U32Max
    THEN Panic(s)
    ELSE Ok([s EXCEPT ![f] = add1(@)], s[f])

\* self.component.section(&section)
section(s, sec) == [s EXCEPT !.component = Append(@, sec)]

\* flush, adding the entries to an earlier section of the same kind.
flush_merging(s) ==
    LET same == {k \in 1..Len(s.component) :
                     s.component[k].kind = s.last_section.kind}
    IN  IF s.last_section.kind = "None"
        THEN s
        ELSE IF same = {}
        THEN [s EXCEPT !.component = Append(@, s.last_section),
                       !.last_section = LastSectionNone]
        ELSE LET k == CHOOSE k \in same : \A j \in same : k <= j
             IN  [s EXCEPT !.component[k].entries = @ \o s.last_section.entries,
                           !.last_section = LastSectionNone]

\* flush, writing the section over the last sealed one.
flush_overwriting(s) ==
    IF s.last_section.kind = "None"
    THEN s
    ELSE [s EXCEPT !.component =
                       SubSeq(@, 1, Len(@) - 1) \o <<s.last_section>>,
                   !.last_section = LastSectionNone]

\* flush, putting the section in front of the stream.
flush_in_front(s) ==
    IF s.last_section.kind = "None"
    THEN s
    ELSE [s EXCEPT !.component = <<s.last_section>> \o @,
                   !.last_section = LastSectionNone]

\* flush, writing the section without taking it out of the slot.
flush_keeping_slot(s) ==
    IF s.last_section.kind = "None" THEN s ELSE section(s, s.last_section)

\* fn flush(&mut self)
flush(s) ==
    IF s.last_section.kind = "None"
    THEN [s EXCEPT !.last_section = LastSectionNone]
    ELSE [section(s, s.last_section) EXCEPT !.last_section = LastSectionNone]

\* The accessor, starting a new section on every call.
accessor_always_new(s, K) ==
    [flush(s) EXCEPT !.last_section = [kind |-> K, entries |-> <<>>]]

\* The accessor, flushing even when the kind matches.
accessor_flush_on_match(s, K) ==
    LET t == flush(s)
    IN  [t EXCEPT !.last_section = [kind |-> K, entries |-> <<>>]]

\* fn $method(&mut self) -> &mut $section, for the section type K
accessor(s, K) ==
    IF s.last_section.kind = K
    THEN s
    ELSE [flush(s) EXCEPT !.last_section = [kind |-> K, entries |-> <<>>]]

component_instances(s) == accessor(s, "ComponentInstanceSection")

instances(s) == accessor(s, "InstanceSection")

canonical_functions(s) == accessor(s, "CanonicalFunctionSection")

aliases(s) == accessor(s, "ComponentAliasSection")

exports(s) == accessor(s, "ComponentExportSection")

imports(s) == accessor(s, "ComponentImportSection")

types(s) == accessor(s, "ComponentTypeSection")

\* The encoder method called on the section the accessor returned
\* (.instantiate, .alias, .lower, .lift, .export_items, .export, .import,
\* .instance, .defined_type, .function): one more entry at the end.
push(s, e) == [s EXCEPT !.last_section.entries = Append(@, e)]

\* ------------------------------------------------------------ operations
instantiate(s, c) == inc(push(instances(s), c), "core_instances")

alias_func(s, c) == inc(push(aliases(s), c), "funcs")

\* lower_func, counting in the function index space.
lower_func_as_func(s, c) == inc(push(canonical_functions(s), c), "funcs")

lower_func(s, c) == inc(push(canonical_functions(s), c), "core_funcs")

\* lift_func, counting in both function index spaces.
lift_func_both(s, c) ==
    inc(inc(push(canonical_functions(s), c), "core_funcs").self, "funcs")

lift_func(s, c) == inc(push(canonical_functions(s), c), "funcs")

\* instantiate_core_exports, writing to the component instance section.
instantiate_core_exports_component(s, c) ==
    inc(push(component_instances(s), c), "core_instances")

instantiate_core_exports(s, c) == inc(push(instances(s), c), "core_instances")

instantiate_exports(s, c) == inc(push(component_instances(s), c), "instances")

\* core_module, flushing after the sub-module section is written.
core_module_flush_after(s, c) ==
    inc(flush(section(s, [kind |-> CoreModule, entries |-> <<c>>])),
        "core_modules")

\* core_module, adding to the preceding sub-module section.
core_module_batched(s, c) ==
    LET t == flush(s)
    IN  IF t.component # <<>> /\ t.component[Len(t.component)].kind = CoreModule
        THEN inc([t EXCEPT !.component[Len(t.component)].entries = Append(@, c)],
                 "core_modules")
        ELSE inc(section(t, [kind |-> CoreModule, entries |-> <<c>>]),
                 "core_modules")

core_module(s, c) ==
    inc(section(flush(s), [kind |-> CoreModule, entries |-> <<c>>]), "core_modules")

\* core_module_raw, without the flush.
core_module_raw_no_flush(s, c) ==
    inc(section(s, [kind |-> CoreModule, entries |-> <<c>>]), "core_modules")

core_module_raw(s, c) ==
    inc(section(flush(s), [kind |-> CoreModule, entries |-> <<c>>]), "core_modules")

alias_core_item(s, c) ==
    LET s1 == push(aliases(s), c)
    IN  CASE c.kind = "Func"   -> inc(s1, "core_funcs")
          [] c.kind = "Table"  -> inc(s1, "core_tables")
          [] c.kind = "Memory" -> inc(s1, "core_memories")
          [] c.kind \in {"Global", "Tag"} -> Panic(s1)

\* export, counting the item before the kind is looked at.
export_counting_first(s, c) ==
    LET s1 == push(exports(s), c)
    IN  CASE c.kind = "Type"     -> inc(s1, "types")
          [] c.kind = "Func"     -> inc(s1, "funcs")
          [] c.kind = "Module"   -> inc(s1, "core_modules")
          [] c.kind = "Instance" -> inc(s1, "instances")
          [] c.kind \in {"Component", "Value"} -> Panic(inc(s1, "types").self)

export(s, c) ==
    LET s1 == push(exports(s), c)
    IN  CASE c.kind = "Type"     -> inc(s1, "types")
          [] c.kind = "Func"     -> inc(s1, "funcs")
          [] c.kind = "Module"   -> inc(s1, "core_modules")
          [] c.kind = "Instance" -> inc(s1, "instances")
          [] c.kind \in {"Component", "Value"} -> Panic(s1)

\* import, counting every import in the instance index space.
import_as_instance(s, c) ==
    LET r == CASE c.kind = "Instance" -> inc(s, "instances")
               [] c.kind = "Func"     -> inc(s, "instances")
               [] OTHER               -> Panic(s)
    IN  IF r.panic THEN r ELSE Ok(push(imports(r.self), c), r.ret)

import(s, c) ==
    LET r == CASE c.kind = "Instance" -> inc(s, "instances")
               [] c.kind = "Func"     -> inc(s, "funcs")
               [] OTHER               -> Panic(s)
    IN  IF r.panic THEN r ELSE Ok(push(imports(r.self), c), r.ret)

instance_type(s, c) ==
    LET r == inc(s, "types")
    IN  IF r.panic THEN r ELSE Ok(push(types(r.self), c), r.ret)

\* defined_type, opening the type section without an entry.
defined_type_no_entry(s, c) ==
    LET r == inc(s, "types")
    IN  IF r.panic THEN r ELSE Ok(types(r.self), r.ret)

defined_type(s, c) ==
    LET r == inc(s, "types")
    IN  IF r.panic THEN r ELSE Ok(push(types(r.self), c), r.ret)

function_type(s, c) ==
    LET r == inc(s, "types")
    IN  IF r.panic THEN r ELSE Ok(push(types(r.self), c), r.ret)

alias_type_export(s, c) == inc(push(aliases(s), c), "types")

alias_outer_type(s, c) == inc(push(aliases(s), c), "types")

\* finish, without the flush.
finish_no_flush(s) == <<Header>> \o s.component

\* pub fn finish(mut self) -> Vec<u8>
finish(s) == <<Header>> \o flush(s).component

\* --------------------------------------------------------------- actions
Init ==
    /\ self = Default
    /\ status = "running"
    /\ ret = NoRet
    /\ output = <<>>
    /\ trace = <<>>
    /\ rets = <<>>
    /\ overflow_checks \in BOOLEAN

\* One call of a registration method: r is its result on `self`.
Step(r, c) ==
    /\ status = "running"
    /\ Len(trace) < MaxCalls
    /\ self' = r.self
    /\ ret' = r.ret
    /\ status' = IF r.panic THEN "aborted" ELSE "running"
    /\ trace' = Append(trace, c)
    /\ rets' = Append(rets, r.ret)
    /\ UNCHANGED <<output, overflow_checks>>

NoArg == "-"

Instantiate ==
    LET c == Call("instantiate", NoArg, NoArg) IN Step(instantiate(self, c), c)

AliasFunc ==
    LET c == Call("alias_func", NoArg, NoArg) IN Step(alias_func(self, c), c)

LowerFunc ==
    LET c == Call("lower_func", NoArg, NoArg) IN Step(lower_func(self, c), c)

LiftFunc ==
    LET c == Call("lift_func", NoArg, NoArg) IN Step(lift_func(self, c), c)

InstantiateCoreExports ==
    LET c == Call("instantiate_core_exports", NoArg, NoArg)
    IN  Step(instantiate_core_exports(self, c), c)

InstantiateExports ==
    LET c == Call("instantiate_exports", NoArg, NoArg)
    IN  Step(instantiate_exports(self, c), c)

CoreModuleOp ==
    LET c == Call("core_module", NoArg, NoArg) IN Step(core_module(self, c), c)

CoreModuleRaw ==
    LET c == Call("core_module_raw", NoArg, NoArg)
    IN  Step(core_module_raw(self, c), c)

AliasCoreItem ==
    \E k \in ExportKind :
        LET c == Call("alias_core_item", k, NoArg)
        IN  Step(alias_core_item(self, c), c)

Export ==
    \E k \in ComponentExportKind :
        LET c == Call("export", k, NoArg) IN Step(export(self, c), c)

Import ==
    \E k \in ComponentTypeRef, n \in Names :
        LET c == Call("import", k, n) IN Step(import(self, c), c)

InstanceType ==
    LET c == Call("instance_type", NoArg, NoArg)
    IN  Step(instance_type(self, c), c)

DefinedType ==
    LET c == Call("defined_type", NoArg, NoArg)
    IN  Step(defined_type(self, c), c)

FunctionType ==
    LET c == Call("function_type", NoArg, NoArg)
    IN  Step(function_type(self, c), c)

AliasTypeExport ==
    LET c == Call("alias_type_export", NoArg, NoArg)
    IN  Step(alias_type_export(self, c), c)

AliasOuterType ==
    LET c == Call("alias_outer_type", NoArg, NoArg)
    IN  Step(alias_outer_type(self, c), c)

\* finish consumes the builder: nothing can be called after it.
Finish ==
    /\ status = "running"
    /\ output' = finish(self)
    /\ self' = flush(self)
    /\ status' = "finished"
    /\ UNCHANGED <<ret, trace, rets, overflow_checks>>

\* flush called on its own (it is private: only code of the module can).
Flush ==
    /\ status = "running"
    /\ self' = flush(self)
    /\ UNCHANGED <<status, ret, output, trace, rets, overflow_checks>>

Next ==
    \/ Instantiate
    \/ AliasFunc
    \/ LowerFunc
    \/ LiftFunc
    \/ InstantiateCoreExports
    \/ InstantiateExports
    \/ CoreModuleOp
    \/ CoreModuleRaw
    \/ AliasCoreItem
    \/ Export
    \/ Import
    \/ InstanceType
    \/ DefinedType
    \/ FunctionType
    \/ AliasTypeExport
    \/ AliasOuterType
    \/ Finish

\* The public interface: registration calls and finish.
Spec == Init /\ [][Next]_vars

NextFlush == Next \/ Flush

\* The public interface and flush, as code inside the module can call it.
SpecFlush == Init /\ [][NextFlush]_vars

\* A counter two short of u32::MAX.
Late == [hi |-> Limb - 1, lo |-> Limb - 2]

\* The builder far into a long run: 2^32 - 2 items were registered in every
\* index space, a sub-module last, so no section is open.  `component`,
\* `trace` and `rets` hold what is written and called from here on.
InitLate ==
    /\ self = [c \in DOMAIN Default |->
                   IF c \in Counters THEN Late ELSE Default[c]]
    /\ status = "running"
    /\ ret = NoRet
    /\ output = <<>>
    /\ trace = <<>>
    /\ rets = <<>>
    /\ overflow_checks \in BOOLEAN

\* The public interface, late in a long run.
SpecLate == InitLate /\ [][Next]_vars

TypeOK ==
    /\ status \in {"running", "finished", "aborted"}
    /\ self.last_section.kind \in BatchKinds \cup {"None"}
    /\ \A f \in Counters : self[f].hi = 0 /\ self[f].lo \in 0..MaxCalls
    /\ Len(trace) <= MaxCalls

\* ------------------------------------------------ what the claims refer to
\* The counter the mapping table of the specification gives an operation.
TableCounter(c) ==
    CASE c.op \in {"instantiate", "instantiate_core_exports"} -> "core_instances"
      [] c.op \in {"alias_func", "lift_func"} -> "funcs"
      [] c.op = "lower_func" -> "core_funcs"
      [] c.op = "instantiate_exports" -> "instances"
      [] c.op \in {"core_module", "core_module_raw"} -> "core_modules"
      [] c.op = "alias_core_item" /\ c.kind = "Func" -> "core_funcs"
      [] c.op = "alias_core_item" /\ c.kind = "Table" -> "core_tables"
      [] c.op = "alias_core_item" /\ c.kind = "Memory" -> "core_memories"
      [] c.op = "export" /\ c.kind = "Type" -> "types"
      [] c.op = "export" /\ c.kind = "Func" -> "funcs"
      [] c.op = "export" /\ c.kind = "Module" -> "core_modules"
      [] c.op = "export" /\ c.kind = "Instance" -> "instances"
      [] c.op = "import" /\ c.kind = "Instance" -> "instances"
      [] c.op = "import" /\ c.kind = "Func" -> "funcs"
      [] c.op \in {"instance_type", "defined_type", "function_type",
                   "alias_type_export", "alias_outer_type"} -> "types"
      [] OTHER -> "unsupported"

\* The section kind an operation writes to, by the specification.
TableKind(c) ==
    CASE c.op = "instantiate_exports" -> "ComponentInstanceSection"
      [] c.op \in {"instantiate", "instantiate_core_exports"} -> "InstanceSection"
      [] c.op \in {"lower_func", "lift_func"} -> "CanonicalFunctionSection"
      [] c.op \in {"alias_func", "alias_core_item", "alias_type_export",
                   "alias_outer_type"} -> "ComponentAliasSection"
      [] c.op = "export" -> "ComponentExportSection"
      [] c.op = "import" -> "ComponentImportSection"
      [] c.op \in {"instance_type", "defined_type", "function_type"} ->
             "ComponentTypeSection"
      [] c.op \in {"core_module", "core_module_raw"} -> CoreModule

IsModuleCall(c) == c.op \in {"core_module", "core_module_raw"}

\* The sections of the bytes finish returned.
Sections(out) == Tail(out)

\* The entries of a sequence of sections, in stream order.
RECURSIVE Flatten(_)
Flatten(secs) ==
    IF secs = <<>> THEN <<>> ELSE Head(secs).entries \o Flatten(Tail(secs))

\* Number of entries in the sections before the k-th.
Offset(secs, k) == Len(Flatten(SubSeq(secs, 1, k - 1)))

\* Number of calls of the trace the table assigns to counter f.
CountReg(f, t) == Cardinality({i \in 1..Len(t) : TableCounter(t[i]) = f})

Last(q) == q[Len(q)]

IsPrefix(p, q) == Len(p) <= Len(q) /\ SubSeq(q, 1, Len(p)) = p

\* The value of a u32 that is small enough to compute with.
Val(v) == v.hi * Limb + v.lo

\* A step that is a registration call which returned.
Registered == status' = "running" /\ Len(trace') = Len(trace) + 1

\* The reference: replay the trace, sealing on every kind transition.
RECURSIVE Replay(_)
Replay(t) ==
    IF t = <<>> THEN <<>>
    ELSE LET acc == Replay(SubSeq(t, 1, Len(t) - 1))
             c == Last(t)
             K == TableKind(c)
         IN  IF K # CoreModule /\ acc # <<>> /\ Last(acc).kind = K
             THEN [acc EXCEPT ![Len(acc)].entries = Append(@, c)]
             ELSE Append(acc, [kind |-> K, entries |-> <<c>>])

\* ------------------------------------------------------------------ C1
\* C1: the n-th successful registration touching an index space returns
\* n-1, and the counter of that space is n right after the call.
C1_NthRegistrationReturnsNMinus1 ==
    (status = "running" /\ trace # <<>>) =>
        LET f == TableCounter(Last(trace))
            n == CountReg(f, trace)
        IN  /\ f \in Counters
            /\ ret = U32(n - 1)
            /\ self[f] = U32(n)

C1_Witness ==
    /\ status = "running"
    /\ Len(trace) = 3
    /\ \A i \in 1..3 : TableCounter(trace[i]) = "types"
    /\ trace[1].op # trace[2].op
    /\ ret = U32(2)
    /\ self.types = U32(3)

\* ------------------------------------------------------------------ C2
\* C2: a call with an unsupported kind aborts before any output mutation:
\* at the abort the sealed output stream and the open section slot are
\* what they were before the call.
C2_AbortBeforeMutation ==
    [][status' = "aborted" =>
          /\ self'.component = self.component
          /\ self'.last_section = self.last_section]_vars

\* ------------------------------------------------------------------ C3
\* C3: consecutive registrations of one batchable kind land next to each
\* other in one section of the output, in call order; a trace made of K >= 2
\* registrations of one batchable kind gives exactly one section, holding
\* the K entries in call order.
C3_RunIsOneSection ==
    status = "finished" =>
        LET secs == Sections(output)
        IN  /\ \A i \in 1..(Len(trace) - 1) :
                   (TableKind(trace[i]) \in BatchKinds
                    /\ TableKind(trace[i]) = TableKind(trace[i + 1])) =>
                       \E k \in 1..Len(secs) :
                           \E p \in 1..(Len(secs[k].entries) - 1) :
                               /\ Offset(secs, k) + p = i
                               /\ secs[k].kind = TableKind(trace[i])
                               /\ secs[k].entries[p] = trace[i]
                               /\ secs[k].entries[p + 1] = trace[i + 1]
            /\ (Len(trace) >= 2
                /\ TableKind(trace[1]) \in BatchKinds
                /\ \A i \in 1..Len(trace) :
                       TableKind(trace[i]) = TableKind(trace[1])) =>
                   secs = <<[kind |-> TableKind(trace[1]), entries |-> trace]>>

C3_Witness ==
    /\ status = "finished"
    /\ Len(trace) = 3
    /\ \A i \in 1..3 : TableKind(trace[i]) = "ComponentAliasSection"
    /\ trace[1].op # trace[2].op
    /\ Len(Sections(output)) = 1
    /\ Len(Sections(output)[1].entries) = 3

\* ------------------------------------------------------------------ C4
\* C4: for two different batchable kinds A and B, the calls A, B, A and
\* then finish give three sections of kinds A, B, A, one entry each.
C4_SandwichIsThreeSections ==
    (/\ status = "finished"
     /\ Len(trace) = 3
     /\ TableKind(trace[1]) \in BatchKinds
     /\ TableKind(trace[2]) \in BatchKinds
     /\ TableKind(trace[1]) # TableKind(trace[2])
     /\ TableKind(trace[3]) = TableKind(trace[1])) =>
        Sections(output) =
            <<[kind |-> TableKind(trace[1]), entries |-> <<trace[1]>>],
              [kind |-> TableKind(trace[2]), entries |-> <<trace[2]>>],
              [kind |-> TableKind(trace[3]), entries |-> <<trace[3]>>]>>

C4_Witness ==
    /\ status = "finished"
    /\ Len(trace) = 3
    /\ TableKind(trace[1]) = "ComponentTypeSection"
    /\ TableKind(trace[2]) = "ComponentAliasSection"
    /\ TableKind(trace[3]) = "ComponentTypeSection"
    /\ Len(Sections(output)) = 3
    /\ Sections(output)[1].kind = Sections(output)[3].kind

\* ------------------------------------------------------------------ C5
\* C5: every sub-module registration has a section of its own: a section
\* that holds a sub-module holds nothing else, there are as many sub-module
\* sections as sub-module registrations, and two consecutive sub-module
\* registrations (core_module or core_module_raw) give two adjacent
\* sub-module sections of one entry each.
C5_SubModuleSectionsNeverMerge ==
    status # "aborted" =>
        LET secs == self.component
        IN  /\ \A k \in 1..Len(secs) :
                   (secs[k].kind = CoreModule
                    \/ \E p \in 1..Len(secs[k].entries) :
                           IsModuleCall(secs[k].entries[p])) =>
                       /\ secs[k].kind = CoreModule
                       /\ Len(secs[k].entries) = 1
                       /\ IsModuleCall(secs[k].entries[1])
            /\ \A p \in 1..Len(self.last_section.entries) :
                   ~IsModuleCall(self.last_section.entries[p])
            /\ Cardinality({k \in 1..Len(secs) : secs[k].kind = CoreModule})
                 = Cardinality({i \in 1..Len(trace) : IsModuleCall(trace[i])})
            /\ \A i \in 1..(Len(trace) - 1) :
                   (IsModuleCall(trace[i]) /\ IsModuleCall(trace[i + 1])) =>
                       \E k \in 1..(Len(secs) - 1) :
                           /\ secs[k] = [kind |-> CoreModule,
                                         entries |-> <<trace[i]>>]
                           /\ secs[k + 1] = [kind |-> CoreModule,
                                             entries |-> <<trace[i + 1]>>]

C5_Witness ==
    /\ status = "finished"
    /\ Len(trace) = 3
    /\ trace[1].op = "core_module"
    /\ trace[2].op = "core_module_raw"
    /\ trace[3].op = "core_module"
    /\ Len(Sections(output)) = 3
    /\ \A k \in 1..3 : Sections(output)[k].kind = CoreModule

\* ------------------------------------------------------------------ C6
\* C6: the section that is open when finish is called is the last section
\* of the output, with its entries in order, and the output of finish holds
\* every entry that was registered.
C6_FinishKeepsOpenSection ==
    [][(status = "running" /\ status' = "finished") =>
          /\ self.last_section.kind # "None" =>
                 /\ Len(output') >= 2
                 /\ Last(output') = self.last_section
          /\ Flatten(Sections(output')) = trace]_vars

C6_Witness ==
    /\ status = "finished"
    /\ Len(output) = 3
    /\ Last(output).kind = "ComponentExportSection"
    /\ Len(Last(output).entries) = 2
    /\ Len(trace) = 3

\* ------------------------------------------------------------------ C7
\* C7: the sections finish returns are the reference result of replaying
\* the trace and sealing on every kind transition.
C7_OutputIsReplay ==
    status = "finished" => Sections(output) = Replay(trace)

C7_Witness ==
    /\ status = "finished"
    /\ Len(trace) = 3
    /\ TableKind(trace[1]) = "CanonicalFunctionSection"
    /\ TableKind(trace[2]) = "CanonicalFunctionSection"
    /\ IsModuleCall(trace[3])
    /\ Len(Sections(output)) = 2

\* ------------------------------------------------------------------ C8
\* C8: a registration that returns advances the counter the mapping table
\* gives its operation and kind by exactly 1 and leaves the other seven
\* counters as they were.
C8_ExactlyOneCounterAdvances ==
    [][Registered =>
          LET f == TableCounter(Last(trace'))
          IN  /\ f \in Counters
              /\ self'[f] = U32(Val(self[f]) + 1)
              /\ \A g \in Counters \ {f} : self'[g] = self[g]]_vars

C8_Witness ==
    /\ status = "running"
    /\ Len(trace) = 3
    /\ trace[1].op = "lower_func"
    /\ trace[2].op = "lift_func"
    /\ trace[3] = Call("export", "Module", NoArg)
    /\ self.core_funcs = U32(1)
    /\ self.funcs = U32(1)
    /\ self.core_modules = U32(1)

\* ------------------------------------------------------------------ C9
\* C9: entries are never reordered: the entries of the sealed sections in
\* stream order, followed by the entries of the open slot, are the
\* registrations in the order they were called.
C9_EntriesInCallOrder ==
    status # "aborted" =>
        Flatten(self.component) \o self.last_section.entries = trace

C9_Witness ==
    /\ status = "running"
    /\ Len(trace) = 3
    /\ Len(self.component) = 1
    /\ Len(self.component[1].entries) = 1
    /\ Len(self.last_section.entries) = 2
    /\ self.last_section.entries[1] # self.last_section.entries[2]

\* ----------------------------------------------------------------- C10
\* C10: the output stream is append-only: over every step the sealed
\* sections before it are a prefix of the sealed sections after it.
C10_StreamIsAppendOnly ==
    [][IsPrefix(self.component, self'.component)]_vars

C10_Witness ==
    /\ status = "running"
    /\ Len(self.component) = 3
    /\ self.component[2].kind = CoreModule
    /\ self.last_section.kind = "None"

\* ----------------------------------------------------------------- C12
\* a <= b for two u32.
Leq(a, b) == a.hi < b.hi \/ (a.hi = b.hi /\ a.lo <= b.lo)

\* No two calls that returned an index in the same index space returned the
\* same index.
IndicesDistinct ==
    \A i, j \in 1..Len(trace) :
        (/\ i < j
         /\ rets[i] # NoRet
         /\ rets[j] # NoRet
         /\ TableCounter(trace[i]) = TableCounter(trace[j])) =>
            rets[i] # rets[j]

\* C12: none of the eight u32 counters ever decreases or resets, and no two
\* registrations in one index space receive the same index.
C12_CountersNeverDecrease ==
    [][/\ \A f \in Counters : Leq(self[f], self'[f])
       /\ IndicesDistinct']_vars

\* ----------------------------------------------------------------- C13
ImportA == Call("import", "Func", "a")

ImportB == Call("import", "Func", "b")

ExportType == Call("export", "Type", NoArg)

\* C13: on a fresh builder import of function "a" returns 0 (function
\* counter 1), import of function "b" returns 1 (function counter 2), an
\* export of a type then seals the import section {a, b} and opens an export
\* section, and finish returns header, import{a, b}, export{one entry}.
C13_ImportImportExport ==
    /\ (status = "running" /\ trace = <<ImportA>>) =>
           ret = U32(0) /\ self.funcs = U32(1)
    /\ (status = "running" /\ trace = <<ImportA, ImportB>>) =>
           ret = U32(1) /\ self.funcs = U32(2)
    /\ (status = "running" /\ trace = <<ImportA, ImportB, ExportType>>) =>
           /\ self.component =
                  <<[kind |-> "ComponentImportSection",
                     entries |-> <<ImportA, ImportB>>]>>
           /\ self.last_section =
                  [kind |-> "ComponentExportSection",
                   entries |-> <<ExportType>>]
    /\ (status = "finished" /\ trace = <<ImportA, ImportB, ExportType>>) =>
           output = <<Header,
                      [kind |-> "ComponentImportSection",
                       entries |-> <<ImportA, ImportB>>],
                      [kind |-> "ComponentExportSection",
                       entries |-> <<ExportType>>]>>

C13_Witness ==
    /\ status = "finished"
    /\ trace = <<ImportA, ImportB, ExportType>>
    /\ rets = <<U32(0), U32(1), U32(0)>>
    /\ Len(output) = 3

\* ----------------------------------------------------------------- C14
\* C14: a sub-module registration seals the open section first: the section
\* that was open is put in the output right before the sub-module section
\* and the slot is empty after the call; X, sub-module, X for one batchable
\* kind X gives the three sections X, sub-module, X.
C14_SubModuleSealsOpenSection ==
    [][/\ (Registered /\ IsModuleCall(Last(trace'))) =>
              /\ self'.component =
                     (IF self.last_section.kind = "None"
                      THEN self.component
                      ELSE Append(self.component, self.last_section))
                     \o <<[kind |-> CoreModule, entries |-> <<Last(trace')>>]>>
              /\ self'.last_section = LastSectionNone
       /\ (/\ status' = "finished"
           /\ Len(trace') = 3
           /\ TableKind(trace'[1]) \in BatchKinds
           /\ IsModuleCall(trace'[2])
           /\ TableKind(trace'[3]) = TableKind(trace'[1])) =>
              Sections(output') =
                  <<[kind |-> TableKind(trace'[1]), entries |-> <<trace'[1]>>],
                    [kind |-> CoreModule, entries |-> <<trace'[2]>>],
                    [kind |-> TableKind(trace'[1]), entries |-> <<trace'[3]>>]>>]_vars

C14_Witness ==
    /\ status = "finished"
    /\ Len(trace) = 3
    /\ TableKind(trace[1]) = "CanonicalFunctionSection"
    /\ trace[2].op = "core_module_raw"
    /\ TableKind(trace[3]) = "CanonicalFunctionSection"
    /\ Len(Sections(output)) = 3
    /\ Sections(output)[2].kind = CoreModule

\* ----------------------------------------------------------------- C15
\* The operations the claim names as sharing a section kind.
OpGroups ==
    {{"lower_func", "lift_func"},
     {"instantiate", "instantiate_core_exports"},
     {"alias_func", "alias_core_item", "alias_type_export", "alias_outer_type"},
     {"instance_type", "defined_type", "function_type"}}

\* The sealed sections and, after them, the open one.
AllSections ==
    self.component
        \o (IF self.last_section.kind = "None" THEN <<>> ELSE <<self.last_section>>)

\* C15: two consecutive calls of operations that share a section kind are
\* next to each other in one section, whatever counters they advance, and
\* no section holds both an instantiate_exports and an instantiate entry.
C15_CoalescingByKindAlone ==
    status # "aborted" =>
        LET secs == AllSections
        IN  /\ \A i \in 1..(Len(trace) - 1) :
                   (\E G \in OpGroups : trace[i].op \in G /\ trace[i + 1].op \in G) =>
                       \E k \in 1..Len(secs) :
                           \E p \in 1..(Len(secs[k].entries) - 1) :
                               /\ Offset(secs, k) + p = i
                               /\ secs[k].entries[p] = trace[i]
                               /\ secs[k].entries[p + 1] = trace[i + 1]
            /\ \A k \in 1..Len(secs) :
                   ~\E p, q \in 1..Len(secs[k].entries) :
                        /\ secs[k].entries[p].op = "instantiate_exports"
                        /\ secs[k].entries[q].op = "instantiate"

C15_Witness ==
    /\ status = "running"
    /\ Len(trace) = 3
    /\ trace[1].op = "alias_func"
    /\ trace[2] = Call("alias_core_item", "Table", NoArg)
    /\ trace[3].op = "alias_outer_type"
    /\ self.funcs = U32(1)
    /\ self.core_tables = U32(1)
    /\ self.types = U32(1)
    /\ self.component = <<>>
    /\ Len(self.last_section.entries) = 3

\* ----------------------------------------------------------------- C16
\* What flush does to the builder as it stands.
FlushEffect ==
    LET t == flush(self)
    IN  /\ self.last_section.kind = "None" => t = self
        /\ self.last_section.kind # "None" =>
               /\ t.component = Append(self.component, self.last_section)
               /\ t.last_section = LastSectionNone
        /\ \A f \in Counters : t[f] = self[f]
        /\ flush(t) = t

\* A step that is a call of flush on its own.
FlushStep == status = "running" /\ status' = "running" /\ trace' = trace

\* C16: flush is a no-op when no section is open; when one is open it
\* appends exactly that one section and leaves the slot empty; it never
\* changes a counter; flush twice is flush once.
C16_FlushSealsOnce ==
    /\ [](status = "running" => FlushEffect)
    /\ [][FlushStep =>
              /\ Len(self'.component) <= Len(self.component) + 1
              /\ self'.last_section = LastSectionNone
              /\ Flatten(self'.component)
                     = Flatten(self.component) \o self.last_section.entries
              /\ \A f \in Counters : self'[f] = self[f]
              /\ ret' = ret /\ output' = output]_vars

C16_Witness ==
    /\ status = "running"
    /\ Len(trace) = 2
    /\ Len(self.component) = 2
    /\ self.component[1].kind = "ComponentTypeSection"
    /\ self.component[2].kind = "ComponentTypeSection"
    /\ self.last_section = LastSectionNone
    /\ self.types = U32(2)

\* ----------------------------------------------------------------- C17
\* C17: a call that aborts because of an unsupported kind advances no
\* counter: at the abort every counter is what it was before the call.
C17_AbortAdvancesNoCounter ==
    [][(status' = "aborted" /\ TableCounter(Last(trace')) = "unsupported") =>
          \A f \in Counters : self'[f] = self[f]]_vars

C17_Witness ==
    /\ status = "aborted"
    /\ Len(trace) = 3
    /\ trace[1].op = "lift_func"
    /\ trace[2] = Call("alias_core_item", "Memory", NoArg)
    /\ trace[3] = Call("export", "Value", NoArg)
    /\ self.funcs = U32(1)
    /\ self.core_memories = U32(1)
    /\ self.types = U32(0)

\* ----------------------------------------------------------------- C18
\* C18: no empty section is ever sealed, and a section that is open after a
\* registration call holds at least one entry.
C18_NoEmptySection ==
    /\ \A k \in 1..Len(self.component) : Len(self.component[k].entries) >= 1
    /\ \A k \in 1..Len(output) :
           output[k] # Header => Len(output[k].entries) >= 1
    /\ self.last_section.kind # "None" => Len(self.last_section.entries) >= 1

C18_Witness ==
    /\ status = "running"
    /\ Len(trace) = 3
    /\ Len(self.component) = 2
    /\ trace[3].op = "defined_type"
    /\ self.last_section =
           [kind |-> "ComponentTypeSection", entries |-> <<trace[3]>>]

\* ----------------------------------------------------------------- C19
\* C19: under the public operations no two adjacent sealed sections have
\* the same batchable kind, and the kind of the open slot differs from the
\* kind of the last sealed section (which may be a sub-module section).
C19_CoalescingIsMaximal ==
    /\ \A k \in 1..(Len(self.component) - 1) :
           self.component[k].kind \in BatchKinds =>
               self.component[k].kind # self.component[k + 1].kind
    /\ (self.last_section.kind # "None" /\ self.component # <<>>) =>
           self.last_section.kind # Last(self.component).kind

C19_Witness ==
    /\ status = "running"
    /\ Len(trace) = 3
    /\ Len(self.component) = 2
    /\ self.component[1].kind = "InstanceSection"
    /\ self.component[2].kind = "ComponentAliasSection"
    /\ self.last_section.kind = "InstanceSection"

\* ----------------------------------------------------------------- C20
RECURSIVE SumCounters(_)
SumCounters(fs) ==
    IF fs = {} THEN 0
    ELSE LET f == CHOOSE f \in fs : TRUE
         IN  Val(self[f]) + SumCounters(fs \ {f})

\* Number of sub-module sections written.
ModuleSections ==
    Cardinality({k \in 1..Len(self.component) :
                     self.component[k].kind = CoreModule})

\* C20: after registration calls that returned, the eight counters add up
\* to the number of registered items: the entries of the sealed batchable
\* sections, the entries of the open slot and the sub-module sections.
C20_CountersSumToItems ==
    status # "aborted" =>
        SumCounters(Counters) =
            Len(Flatten(SelectSeq(self.component,
                                  LAMBDA sec : sec.kind \in BatchKinds)))
            + Len(self.last_section.entries)
            + ModuleSections

\* An export of kind Module has advanced core_modules past the number of
\* sub-module sections.
C20_Witness ==
    /\ status = "running"
    /\ Len(trace) = 3
    /\ \E i \in 1..3 : IsModuleCall(trace[i])
    /\ \E i \in 1..3 : trace[i] = Call("export", "Module", NoArg)
    /\ Val(self.core_modules) > ModuleSections
    /\ ModuleSections >= 1
    /\ SumCounters(Counters) = 3
====
